---- MODULE Spec2Model ----
(***************************************************************************)
(* A model of github.com/oarkflow/shamir: the GF(2^8) kernel, the framed   *)
(* share container with its CRC-32, Split and Combine, the JSON form of a  *)
(* share, the storage backends with the routing composite, and the         *)
(* rotator.  A frame is a sequence of bytes; Go's buf[k] is frame[k+1].    *)
(***************************************************************************)
EXTENDS Integers, Sequences, FiniteSets, TLC

Byte == 0..255

\* ------------------------------------------------------------------------
\* Bit operations on bytes and on 16-bit halves of a 32-bit word
\* ------------------------------------------------------------------------

RECURSIVE XorBits(_, _, _)
XorBits(a, b, w) ==
  IF w = 0 THEN 0
  ELSE (((a % 2) + (b % 2)) % 2) + (2 * XorBits(a \div 2, b \div 2, w - 1))

\* f as an explicit table, so that an entry is computed once and not at each use
Explicit(f) == f @@ <<>>

\* a ^ b for all bytes
XorTable == Explicit([a \in Byte |-> Explicit([b \in Byte |-> XorBits(a, b, 8)])])

Xor(a, b) == XorTable[a][b]

Xor16(a, b) == (256 * Xor(a \div 256, b \div 256)) + Xor(a % 256, b % 256)

\* ------------------------------------------------------------------------
\* GF(256) arithmetic tables and operations (shamir.go)
\* ------------------------------------------------------------------------

\* bitwise multiplication for table generation
RECURSIVE gfMulLoop(_, _, _)
gfMulLoop(a, b, p) ==
  IF b = 0 THEN p
  ELSE LET p1 == IF b % 2 # 0 THEN Xor(p, a) ELSE p
           carry == a \div 128
           a1 == (a * 2) % 256
           a2 == IF carry # 0 THEN Xor(a1, 27) ELSE a1
       IN gfMulLoop(a2, b \div 2, p1)

gfMulNoLUT(a, b) == gfMulLoop(a, b, 0)

\* init(): the body of the first loop, on the state <<x, expTable, logTable>>
initStep(i, st) ==
  <<gfMulNoLUT(st[1], 3), [st[2] EXCEPT ![i] = st[1]], [st[3] EXCEPT ![st[1]] = i]>>

\* init(): the body of the second loop, which duplicates expTable over 255..511
dupStep(i, st) == <<st[1], [st[2] EXCEPT ![i] = st[2][i - 255]], st[3]>>

\* init(): for i := lo; i < hi; i++ { st = initStep(i, st) }, run as two halves
\* (the second half starts from the value of the first)
RECURSIVE initLoop(_, _, _)
initFrom(lo, hi, st) == IF st = st THEN initLoop(lo, hi, st) ELSE st
initLoop(lo, hi, st) ==
  IF hi <= lo THEN st
  ELSE IF hi = lo + 1 THEN initStep(lo, st)
  ELSE initFrom((lo + hi) \div 2, hi, initLoop(lo, (lo + hi) \div 2, st))

\* init(): for i := lo; i < hi; i++ { st = dupStep(i, st) }
RECURSIVE dupLoop(_, _, _)
dupFrom(lo, hi, st) == IF st = st THEN dupLoop(lo, hi, st) ELSE st
dupLoop(lo, hi, st) ==
  IF hi <= lo THEN st
  ELSE IF hi = lo + 1 THEN dupStep(lo, st)
  ELSE dupFrom((lo + hi) \div 2, hi, dupLoop(lo, (lo + hi) \div 2, st))

initTables ==
  dupFrom(255, 512, initLoop(0, 255,
          <<1, Explicit([k \in 0..511 |-> 0]), Explicit([k \in 0..255 |-> 0])>>))

expTable == initTables[2]
logTable == initTables[3]

add(a, b) == Xor(a, b)

\* the table lookups of mul, on the sum s of the two logarithms
mulLookup(exp, s) == exp[IF s >= 255 THEN s - 255 ELSE s]

\* mul without its test for a zero operand
mulTablesUnguarded(exp, log, a, b) == mulLookup(exp, log[a] + log[b])

mulTables(exp, log, a, b) ==
  IF a = 0 \/ b = 0 THEN 0 ELSE mulLookup(exp, log[a] + log[b])

mul(a, b) == mulTables(expTable, logTable, a, b)

\* inv returns (0, error) on 0; its callers in Combine drop the error
inv(a) == IF a = 0 THEN 0 ELSE expTable[255 - logTable[a]]

\* inv with its error: (0, "shamir: inverse of zero") on 0
invChecked(a) ==
  IF a = 0 THEN [ok |-> FALSE, val |-> 0, err |-> "shamir: inverse of zero"]
  ELSE [ok |-> TRUE, val |-> expTable[255 - logTable[a]], err |-> "none"]

\* ------------------------------------------------------------------------
\* CRC-32/IEEE (hash/crc32.ChecksumIEEE); the table is built on <<hi16, lo16>>
\* words with the reflected polynomial 0xEDB88320, the running value is kept
\* as four bytes
\* ------------------------------------------------------------------------

RECURSIVE crcEntryLoop(_, _, _)
crcEntryLoop(hi, lo, k) ==
  IF k = 0 THEN <<hi, lo>>
  ELSE LET shi == hi \div 2
           slo == (lo \div 2) + (32768 * (hi % 2))
       IN IF lo % 2 = 1
          THEN crcEntryLoop(Xor16(shi, 60856), Xor16(slo, 33568), k - 1)
          ELSE crcEntryLoop(shi, slo, k - 1)

\* a 32-bit word <<hi16, lo16>> as its four bytes from the most significant down
wordBytes(e) == <<e[1] \div 256, e[1] % 256, e[2] \div 256, e[2] % 256>>

crcTable == Explicit([i \in Byte |-> wordBytes(crcEntryLoop(0, i, 8))])

\* crc = e ^ (crc >> 8) for the table entry e
crcStep(e, crc) == <<e[1], Xor(e[2], crc[1]), Xor(e[3], crc[2]), Xor(e[4], crc[3])>>

\* crc = table[byte(crc) ^ b] ^ (crc >> 8), for each byte b of buf from k on
RECURSIVE crcUpdate(_, _, _)
crcUpdate(crc, buf, k) ==
  IF k > Len(buf) THEN crc
  ELSE crcUpdate(crcStep(crcTable[Xor(crc[4], buf[k])], crc), buf, k + 1)

\* ^ 0xFFFFFFFF
crcFinal(c) == <<Xor(c[1], 255), Xor(c[2], 255), Xor(c[3], 255), Xor(c[4], 255)>>

\* the checksum as its four big-endian bytes (binary.BigEndian.PutUint32)
ChecksumIEEE(buf) == crcFinal(crcUpdate(<<255, 255, 255, 255>>, buf, 1))

\* ------------------------------------------------------------------------
\* Results: a value, or the error the code returns
\* ------------------------------------------------------------------------

Ok(v) == [ok |-> TRUE, val |-> v, err |-> "none"]
Err(e) == [ok |-> FALSE, val |-> <<>>, err |-> e]

\* ------------------------------------------------------------------------
\* Constants and the share frame (shamir.go)
\* ------------------------------------------------------------------------

magicHeader == <<83, 72, 65, 77>>   \* "SHAM"
version == 1
headLen == 4 + 1 + 1 + 1 + 2 + 1

\* binary.BigEndian.PutUint16(buf[7:], uint16(v))
PutUint16(v) == <<(v \div 256) % 256, v % 256>>

\* binary.BigEndian.Uint16(h[7:9])
Uint16(h) == (h[8] * 256) + h[9]

\* the ten header bytes Split and FromJSON write, for index byte idx
Header(t, n, secretLen, idx) ==
  magicHeader \o <<version, t % 256, n % 256>> \o PutUint16(secretLen) \o <<idx % 256>>

\* buf with its last four bytes set to the CRC-32 of the bytes before them
WithCRC(d) == d \o ChecksumIEEE(d)

\* ------------------------------------------------------------------------
\* Split
\* ------------------------------------------------------------------------

\* the inner loop of SplitWithReader: y = coeffs[0] ^ sum coeffs[k] * x^k
RECURSIVE evalLoop(_, _, _, _, _, _)
evalLoop(coeffs, x, t, k, px, y) ==
  IF k >= t THEN y
  ELSE evalLoop(coeffs, x, t, k + 1, mul(px, x),
                Xor(y, mul(coeffs[k + 1], mul(px, x))))

\* (a variant that starts the running power at x instead of 1)
evalAtPowerOff(coeffs, x, t) == evalLoop(coeffs, x, t, 1, x, coeffs[1])

evalAt(coeffs, x, t) == evalLoop(coeffs, x, t, 1, 1, coeffs[1])

\* the coefficients of column j: secret[j], then the next t-1 bytes of rng
columnCoeffs(rng, secret, t, j) ==
  <<secret[j]>> \o SubSeq(rng, ((j - 1) * (t - 1)) + 1, j * (t - 1))

\* SplitWithReader(rng, secret, t, n); rng is the byte stream the reader yields
SplitWithReader(rng, secret, t, n) ==
  IF t < 2 \/ t > 255
  THEN Err("shamir: threshold must be between 2 and 255")
  ELSE IF n < t \/ n > 255
  THEN Err("shamir: number of shares must be between threshold and 255")
  ELSE IF Len(secret) > 0 /\ Len(rng) < Len(secret) * (t - 1)
  THEN Err("unexpected EOF")
  ELSE Ok([i \in 1..n |->
            WithCRC(Header(t, n, Len(secret), i) \o
                    [j \in 1..Len(secret) |->
                       evalAt(columnCoeffs(rng, secret, t, j), i, t)])])

\* ------------------------------------------------------------------------
\* Combine
\* ------------------------------------------------------------------------

\* the checks of the validation loop on one share, in the code's order
shareError(buf, threshold, total, secretLen, seen) ==
  IF Len(buf) # headLen + secretLen + 4
  THEN "shamir: share length mismatch"
  ELSE IF ChecksumIEEE(SubSeq(buf, 1, Len(buf) - 4)) # SubSeq(buf, Len(buf) - 3, Len(buf))
  THEN "shamir: CRC32 mismatch"
  ELSE IF buf[6] # threshold % 256 \/ buf[7] # total
  THEN "shamir: inconsistent header fields"
  ELSE IF buf[10] = 0 \/ buf[10] \in seen
  THEN "shamir: invalid or duplicate index"
  ELSE "none"

\* the validation loop: the first error met from share i on, or "none"
RECURSIVE validate(_, _, _, _, _, _)
validateNext(e, shares, i, threshold, total, secretLen, seen) ==
  IF e # "none" THEN e
  ELSE validate(shares, i + 1, threshold, total, secretLen, seen \cup {shares[i][10]})

validate(shares, i, threshold, total, secretLen, seen) ==
  IF i > Len(shares) THEN "none"
  ELSE validateNext(shareError(shares[i], threshold, total, secretLen, seen),
                    shares, i, threshold, total, secretLen, seen)

\* the product of f[1..k] in GF(256)
RECURSIVE prod(_, _)
prod(f, k) == IF k = 0 THEN 1 ELSE mul(prod(f, k - 1), f[k])

\* the Lagrange weight of share i, from the x-coordinates xs
lagrange(xs, i) ==
  mul(mul(prod(xs, Len(xs)), inv(xs[i])),
      inv(prod([j \in 1..Len(xs) |-> IF j = i THEN 1 ELSE Xor(xs[i], xs[j])], Len(xs))))

\* v = XOR over i of mul(data[i][j], lags[i])
RECURSIVE column(_, _, _, _)
column(shares, lags, j, i) ==
  IF i = 0 THEN 0
  ELSE Xor(column(shares, lags, j, i - 1), mul(shares[i][headLen + j], lags[i]))

\* secret[j] for each column j, with the weights lags
reconstruct(shares, lags, secretLen) ==
  [j \in 1..secretLen |-> column(shares, lags, j, Len(shares))]

\* the interpolation of t validated shares
interpolate(shares, secretLen) ==
  reconstruct(shares,
              [i \in 1..Len(shares) |->
                 lagrange([k \in 1..Len(shares) |-> shares[k][10]], i)],
              secretLen)

\* (a variant that keeps every share given)
quorumAll(shares, threshold) == shares

\* the shares Combine keeps: the first threshold of them when more are given
quorum(shares, threshold) ==
  IF Len(shares) > threshold THEN SubSeq(shares, 1, threshold) ELSE shares

\* Combine after the validation loop returned e
combineResult(e, used, secretLen) ==
  IF e # "none" THEN Err(e) ELSE Ok(interpolate(used, secretLen))

\* Combine on the shares it keeps
combineUsed(used, threshold, total, secretLen) ==
  combineResult(validate(used, 1, threshold, total, secretLen, {}), used, secretLen)

\* Combine from the header h of the first share on
combineHeader(shares, h) ==
  IF Len(h) < 10 THEN Err("shamir: invalid share length")
  ELSE IF SubSeq(h, 1, 4) # magicHeader THEN Err("shamir: bad magic header")
  ELSE IF h[5] # version THEN Err("shamir: version mismatch")
  ELSE IF Len(shares) < h[6] THEN Err("shamir: insufficient shares provided")
  ELSE combineUsed(quorum(shares, h[6]), h[6], h[7], Uint16(h))

Combine(shares) ==
  IF Len(shares) < 2 THEN Err("shamir: need at least 2 shares")
  ELSE combineHeader(shares, shares[1])

\* ------------------------------------------------------------------------
\* Serialization: base64 and the JSON form of a share
\* ------------------------------------------------------------------------

\* A base64 string is a sequence of symbols: 0..63 for the alphabet, pad for '='
pad == 64

\* base64.StdEncoding.EncodeToString, from byte k of b on
RECURSIVE b64Encode(_, _)
b64Encode(b, k) ==
  LET r == Len(b) - k + 1 IN
  IF r <= 0 THEN <<>>
  ELSE IF r = 1
  THEN <<b[k] \div 4, (b[k] % 4) * 16, pad, pad>>
  ELSE IF r = 2
  THEN <<b[k] \div 4, ((b[k] % 4) * 16) + (b[k + 1] \div 16), (b[k + 1] % 16) * 4, pad>>
  ELSE <<b[k] \div 4,
         ((b[k] % 4) * 16) + (b[k + 1] \div 16),
         ((b[k + 1] % 16) * 4) + (b[k + 2] \div 64),
         b[k + 2] % 64>> \o b64Encode(b, k + 3)

EncodeToString(b) == b64Encode(b, 1)

\* the bytes of one quantum of four symbols; the last one may end in padding
quantumBytes(q, isLast) ==
  IF \A i \in 1..4 : q[i] \in 0..63
  THEN Ok(<<(q[1] * 4) + (q[2] \div 16),
            ((q[2] % 16) * 16) + (q[3] \div 4),
            ((q[3] % 4) * 64) + q[4]>>)
  ELSE IF isLast /\ q[1] \in 0..63 /\ q[2] \in 0..63 /\ q[3] \in 0..63 /\ q[4] = pad
  THEN Ok(<<(q[1] * 4) + (q[2] \div 16), ((q[2] % 16) * 16) + (q[3] \div 4)>>)
  ELSE IF isLast /\ q[1] \in 0..63 /\ q[2] \in 0..63 /\ q[3] = pad /\ q[4] = pad
  THEN Ok(<<(q[1] * 4) + (q[2] \div 16)>>)
  ELSE Err("illegal base64 data")

\* the bytes of a quantum followed by the bytes of the quanta after it
joinBytes(q, rest) ==
  IF ~q.ok THEN q ELSE IF ~rest.ok THEN rest ELSE Ok(q.val \o rest.val)

\* base64.StdEncoding.DecodeString, from symbol k of s on
RECURSIVE b64Decode(_, _)
b64Decode(s, k) ==
  IF k > Len(s) THEN Ok(<<>>)
  ELSE IF Len(s) - k + 1 < 4 THEN Err("illegal base64 data")
  ELSE joinBytes(quantumBytes(SubSeq(s, k, k + 3), k + 3 = Len(s)), b64Decode(s, k + 4))

DecodeString(s) == b64Decode(s, 1)

\* ToJSON: the ShareJSON record stands for its JSON text (json.Marshal of three
\* bytes and a base64 string, which json.Unmarshal reads back unchanged)
ToJSON(share) ==
  IF Len(share) < 10 THEN Err("shamir: invalid share")
  ELSE IF Len(share) - 4 < 9 THEN Err("panic: slice bounds out of range")
  ELSE Ok([index |-> share[10], threshold |-> share[6], total_shares |-> share[7],
           data |-> EncodeToString(SubSeq(share, 10, Len(share) - 4))])

\* FromJSON once j.Data is decoded
fromDecoded(js, data) ==
  IF ~data.ok THEN data
  ELSE Ok(WithCRC(Header(js.threshold, js.total_shares, Len(data.val), js.index)
                  \o data.val))

FromJSON(js) == fromDecoded(js, DecodeString(js.data))

\* FromJSON(ToJSON(share))
roundTrip(js) == IF js.ok THEN FromJSON(js.val) ELSE js

\* ------------------------------------------------------------------------
\* Storage (storage/storage.go, storage/drivers).  The state of the backends
\* is one record: data is the map of the MemoryStorage, dir the files of the
\* directory of the FileStorage by name, backends the map of the
\* MultiStorage.  A handle is "mem", "file" or "multi".  An operation that
\* may write returns [st, res], the new state and its result.
\* ------------------------------------------------------------------------

Range(f) == {f[i] : i \in DOMAIN f}

\* m[k] = v, on a Go map held as a function on its keys
mapPut(m, k, v) == [x \in (DOMAIN m) \cup {k} |-> IF x = k THEN v ELSE m[x]]

\* delete(m, k)
mapDelete(m, k) == [x \in (DOMAIN m) \ {k} |-> m[x]]

\* the orders in which a range over a map with these keys may visit them
keyOrders(keys) == {q \in [1..Cardinality(keys) -> keys] : Range(q) = keys}

newStorage == [data |-> <<>>, dir |-> <<>>, backends |-> <<>>]

\* --- MemoryStorage ---

MemorySetShare(st, index, share) ==
  [st |-> [st EXCEPT !.data = mapPut(@, index, share)], res |-> Ok(<<>>)]

MemoryGetShare(st, index) ==
  IF index \in DOMAIN st.data THEN Ok(st.data[index])
  ELSE Err("memory: share not found")

MemoryListShares(st) == keyOrders(DOMAIN st.data)

MemoryDeleteShare(st, index) ==
  IF index \in DOMAIN st.data
  THEN [st |-> [st EXCEPT !.data = mapDelete(@, index)], res |-> Ok(<<>>)]
  ELSE [st |-> st, res |-> Err("memory: share not found")]

\* --- FileStorage; a file name is a sequence of ASCII codes ---

\* %d of a byte
RECURSIVE Itoa(_)
Itoa(i) == IF i < 10 THEN <<48 + i>> ELSE Itoa(i \div 10) \o <<48 + (i % 10)>>

sharePrefix == <<115, 104, 97, 114, 101, 95>>   \* "share_"
datSuffix == <<46, 100, 97, 116>>               \* ".dat"

\* the name of the file of a share inside fs.dir (and a naming that keeps the
\* last decimal digit of the index only)
filePathLastDigit(index) == sharePrefix \o <<48 + (index % 10)>> \o datSuffix

filePath(index) == sharePrefix \o Itoa(index) \o datSuffix

HasPrefix(s, p) == Len(s) >= Len(p) /\ SubSeq(s, 1, Len(p)) = p

HasSuffix(s, p) == Len(s) >= Len(p) /\ SubSeq(s, Len(s) - Len(p) + 1, Len(s)) = p

RECURSIVE atoiDigits(_, _, _)
atoiDigits(s, k, acc) ==
  IF k > Len(s) THEN acc ELSE atoiDigits(s, k + 1, (acc * 10) + (s[k] - 48))

\* strconv.Atoi: an optional sign, then decimal digits only
atoiSigned(s, d) ==
  IF Len(d) = 0 \/ (\E k \in DOMAIN d : d[k] \notin 48..57) \/ Len(d) > 9
  THEN Err("strconv.Atoi: parsing error")
  ELSE Ok(IF s[1] = 45 THEN 0 - atoiDigits(d, 1, 0) ELSE atoiDigits(d, 1, 0))

Atoi(s) == atoiSigned(s, IF Len(s) > 0 /\ s[1] \in {43, 45} THEN Tail(s) ELSE s)

\* the order of file names
RECURSIVE nameLess(_, _, _)
nameLess(a, b, k) ==
  IF k > Len(a) THEN k <= Len(b)
  ELSE IF k > Len(b) THEN FALSE
  ELSE IF a[k] # b[k] THEN a[k] < b[k]
  ELSE nameLess(a, b, k + 1)

\* os.ReadDir: the entries of the directory, sorted by file name
ReadDir(dir) ==
  CHOOSE q \in keyOrders(DOMAIN dir) :
    \A i, j \in DOMAIN q : i < j => nameLess(q[i], q[j], 1)

\* the body of the loop of ListShares for one entry: the index appended, if any
listEntry(name, num) ==
  IF ~(HasPrefix(name, sharePrefix) /\ HasSuffix(name, datSuffix)) THEN <<>>
  ELSE IF ~num.ok THEN <<>>
  ELSE <<num.val % 256>>

RECURSIVE listLoop(_, _)
listLoop(entries, k) ==
  IF k > Len(entries) THEN <<>>
  ELSE listEntry(entries[k],
                 Atoi(SubSeq(entries[k], Len(sharePrefix) + 1,
                             Len(entries[k]) - Len(datSuffix))))
       \o listLoop(entries, k + 1)

FileSetShare(st, index, share) ==
  [st |-> [st EXCEPT !.dir = mapPut(@, filePath(index), share)], res |-> Ok(<<>>)]

FileGetShare(st, index) ==
  IF filePath(index) \in DOMAIN st.dir THEN Ok(st.dir[filePath(index)])
  ELSE Err("filestorage: share not found")

FileListShares(st) == {listLoop(ReadDir(st.dir), 1)}

FileDeleteShare(st, index) ==
  IF filePath(index) \in DOMAIN st.dir
  THEN [st |-> [st EXCEPT !.dir = mapDelete(@, filePath(index))], res |-> Ok(<<>>)]
  ELSE [st |-> st, res |-> Err("filestorage: share not found or could not delete")]

\* --- the call of a method on the backend b ("mem" or "file") ---

\* (and a call that reaches both backends)
backendSetShareBoth(st, b, index, share) ==
  FileSetShare(MemorySetShare(st, index, share).st, index, share)

backendSetShare(st, b, index, share) ==
  IF b = "mem" THEN MemorySetShare(st, index, share) ELSE FileSetShare(st, index, share)

backendGetShare(st, b, index) ==
  IF b = "mem" THEN MemoryGetShare(st, index) ELSE FileGetShare(st, index)

backendDeleteShare(st, b, index) ==
  IF b = "mem" THEN MemoryDeleteShare(st, index) ELSE FileDeleteShare(st, index)

\* --- MultiStorage ---

noBackend == "shamir: no storage backend assigned for share index"

AssignStorage(st, index, backend) ==
  [st EXCEPT !.backends = mapPut(@, index, backend)]

\* SetShare (and a SetShare that falls back to the memory backend for an
\* unassigned index)
MultiSetShareDefault(st, index, share) ==
  backendSetShare(st, IF index \in DOMAIN st.backends THEN st.backends[index] ELSE "mem",
                  index, share)

MultiSetShare(st, index, share) ==
  IF index \notin DOMAIN st.backends THEN [st |-> st, res |-> Err(noBackend)]
  ELSE backendSetShare(st, st.backends[index], index, share)

MultiGetShare(st, index) ==
  IF index \notin DOMAIN st.backends THEN Err(noBackend)
  ELSE backendGetShare(st, st.backends[index], index)

MultiListShares(st) == keyOrders(DOMAIN st.backends)

MultiDeleteShare(st, index) ==
  IF index \notin DOMAIN st.backends THEN [st |-> st, res |-> Err(noBackend)]
  ELSE backendDeleteShare(st, st.backends[index], index)

\* --- the methods of IStorage on the handle h ---

SetShare(st, h, index, share) ==
  IF h = "multi" THEN MultiSetShare(st, index, share)
  ELSE backendSetShare(st, h, index, share)

GetShare(st, h, index) ==
  IF h = "multi" THEN MultiGetShare(st, index) ELSE backendGetShare(st, h, index)

\* the sequences ListShares may return
ListShares(st, h) ==
  IF h = "multi" THEN MultiListShares(st)
  ELSE IF h = "mem" THEN MemoryListShares(st)
  ELSE FileListShares(st)

DeleteShare(st, h, index) ==
  IF h = "multi" THEN MultiDeleteShare(st, index)
  ELSE backendDeleteShare(st, h, index)

\* the loop of BatchSet when the range visits the keys in this order: it
\* stops at the first SetShare that fails
\* (and a loop that goes on after a SetShare that failed and returns nil)
batchStepIgnoreError(r, h, shares, order, k) ==
  [st |-> r.st, k |-> k + 1, res |-> Ok(<<>>)]

batchStep(r, h, shares, order, k) ==
  IF r.res.ok THEN [st |-> r.st, k |-> k + 1, res |-> r.res]
  ELSE [st |-> r.st, k |-> Len(order) + 1, res |-> r.res]

RECURSIVE batchLoop(_, _, _, _)
batchLoop(h, shares, order, s) ==
  IF s.k > Len(order) THEN [st |-> s.st, res |-> s.res]
  ELSE batchLoop(h, shares, order,
                 batchStep(SetShare(s.st, h, order[s.k], shares[order[s.k]]),
                           h, shares, order, s.k))

\* the outcomes of BatchSet(shares)
BatchSet(st, h, shares) ==
  {batchLoop(h, shares, order, [st |-> st, k |-> 1, res |-> Ok(<<>>)]) :
     order \in keyOrders(DOMAIN shares)}

\* ------------------------------------------------------------------------
\* Storage helpers of the sharer and the rotator (rotator.go).  The result
\* of a step of a tick is [panic, err, shares]: err is the chain of messages
\* of the error, <<>> for nil.
\* ------------------------------------------------------------------------

\* StoreShares: batch[s[9]] = s for the shares in order
RECURSIVE batchOf(_, _, _)
batchOf(shs, k, batch) ==
  IF k > Len(shs) THEN batch
  ELSE batchOf(shs, k + 1, mapPut(batch, shs[k][10], shs[k]))

retrieveStep(r, out) == IF r.ok THEN Ok(Append(out.val, r.val)) ELSE r

RECURSIVE retrieveLoop(_, _, _, _, _)
retrieveLoop(indices, st, h, k, out) ==
  IF k > Len(indices) \/ ~out.ok THEN out
  ELSE retrieveLoop(indices, st, h, k + 1, retrieveStep(GetShare(st, h, indices[k]), out))

RetrieveShares(indices, st, h) == retrieveLoop(indices, st, h, 1, Ok(<<>>))

newShares(shs) == [panic |-> FALSE, err |-> <<>>, shares |-> shs]
failed(tag, cause) == [panic |-> FALSE, err |-> <<tag>> \o cause, shares |-> <<>>]
panicked == [panic |-> TRUE, err |-> <<>>, shares |-> <<>>]

\* NewRotator: nil when the configuration is accepted
NewRotator(cfg) ==
  IF cfg.Storage = "nil" THEN Err("shamir/rotator: Storage cannot be nil")
  ELSE IF cfg.Threshold < 2 \/ cfg.TotalShares < cfg.Threshold
  THEN Err("shamir/rotator: invalid threshold/total")
  ELSE IF cfg.RotationInterval <= 0
  THEN Err("shamir/rotator: RotationInterval must be > 0")
  ELSE Ok(cfg)

\* Split(secret, t, n) when every byte crypto/rand yields is rng
Split(secret, t, n, rng) ==
  SplitWithReader([k \in 1..(Len(secret) * (t - 1)) |-> rng], secret, t, n)

splitResult(tag, s) == IF s.ok THEN newShares(s.val) ELSE failed(tag, <<s.err>>)

fullRotateSplit(c, t, n, rng) ==
  IF ~c.ok THEN failed("combine old secret", <<c.err>>)
  ELSE splitResult("split new secret", Split(c.val, t, n, rng))

fullRotate(oldShares, t, n, rng) == fullRotateSplit(Combine(oldShares), t, n, rng)

\* sort.Slice by the byte at offset 9: the orders it may leave the shares in
sortSlice(oldShares) ==
  {[k \in DOMAIN oldShares |-> oldShares[q[k]]] :
     q \in {p \in keyOrders(DOMAIN oldShares) :
              \A i, j \in DOMAIN p : i < j => oldShares[p[i]][10] <= oldShares[p[j]][10]}}

\* the body of the loop of proactiveRefresh: the refreshed frame for a and b,
\* <<>> when an index is out of range
refreshedFrame(a, b) ==
  IF Len(a) < headLen \/ Len(a) - 4 > Len(b) THEN <<>>
  ELSE WithCRC(SubSeq(SubSeq(a, 1, headLen)
                      \o [j \in 1..(Len(a) - 4 - headLen) |->
                            Xor(a[headLen + j], b[headLen + j])],
                      1, Len(a) - 4))

refreshLoop(oldShares, zeroShares, n) ==
  [i \in 1..n |-> IF i > Len(oldShares) THEN <<>>
                  ELSE refreshedFrame(oldShares[i], zeroShares[i])]

refreshResult(refreshed) ==
  IF \E i \in DOMAIN refreshed : refreshed[i] = <<>> THEN panicked
  ELSE newShares(refreshed)

refreshZero(oldShares, z, n) ==
  IF ~z.ok THEN failed("split zero", <<z.err>>)
  ELSE refreshResult(refreshLoop(oldShares, z.val, n))

refreshChecked(oldShares, c, t, n, rng) ==
  IF ~c.ok THEN failed("combine for refresh", <<c.err>>)
  ELSE refreshZero(oldShares,
                   Split([j \in 1..(Len(oldShares[1]) - (headLen + 4)) |-> 0], t, n, rng),
                   n)

\* proactiveRefresh on oldShares as sort.Slice left them
proactiveRefresh(oldShares, t, n, rng) ==
  refreshChecked(oldShares, Combine(oldShares), t, n, rng)

wrap(tag, r) == IF r.err = <<>> THEN r ELSE [r EXCEPT !.err = <<tag>> \o @]

\* tick from the retrieval of the shares to the new shares
tickRetrieved(cur, cfg, rng) ==
  IF ~cur.ok THEN {failed("retrieve shares", <<cur.err>>)}
  ELSE IF cfg.ProactiveOnly
  THEN {wrap("proactive refresh failed",
             proactiveRefresh(old, cfg.Threshold, cfg.TotalShares, rng)) :
          old \in sortSlice(cur.val)}
  ELSE {wrap("full rotate failed",
             fullRotate(cur.val, cfg.Threshold, cfg.TotalShares, rng))}

\* tick up to StoreShares, when ListShares returned idxs
tickListed(st, cfg, idxs, rng) ==
  IF Len(idxs) < cfg.Threshold THEN {failed("not enough shares to operate", <<>>)}
  ELSE tickRetrieved(RetrieveShares(idxs, st, cfg.Storage), cfg, rng)

\* ------------------------------------------------------------------------
\* Bounds and input sets
\* ------------------------------------------------------------------------

MaxLen == 2     \* longest secret
MaxN == 3       \* largest number of shares

\* two secrets of each length: "hij..." and 00 FF 00 ...
Secrets ==
  UNION {{[j \in 1..L |-> 103 + j], [j \in 1..L |-> IF j % 2 = 1 THEN 0 ELSE 255]} :
         L \in 0..MaxLen}

\* the valid (t, n)
Params == {p \in (2..MaxN) \X (2..MaxN) : p[1] <= p[2]}

\* what the random source yields: one of these patterns, repeated
RngPatterns == {<<124>>, <<90, 3>>, <<0, 255, 17>>}

stream(pat, len) == [k \in 1..len |-> pat[((k - 1) % Len(pat)) + 1]]

\* the sequences without repetition over 1..n
InjSeqs(n) ==
  {q \in UNION {[1..k -> 1..n] : k \in 0..n} :
     \A i, j \in DOMAIN q : i # j => q[i] # q[j]}

\* ------------------------------------------------------------------------
\* Frames the callers of Combine may hand in besides the shares of a Split
\* ------------------------------------------------------------------------

TamperKinds == {"zero", "crc", "thr", "tot", "len"}

body(f) == SubSeq(f, 1, Len(f) - 4)

\* the header and payload b with index 0, or t + 1, or n + 1, or L + 1
tamperBody(b, kind) ==
  CASE kind = "zero" -> [b EXCEPT ![10] = 0]
    [] kind = "thr"  -> [b EXCEPT ![6] = (@ % 255) + 1]
    [] kind = "tot"  -> [b EXCEPT ![7] = (@ % 255) + 1]
    [] kind = "len"  -> [b EXCEPT ![9] = (@ + 1) % 256] \o <<0>>
    [] OTHER         -> b

\* f with its last bit flipped (kind "crc"), or f changed and its CRC redone
Tamper(f, kind) ==
  IF kind = "crc" THEN [f EXCEPT ![Len(f)] = (2 * (@ \div 2)) + (1 - (@ % 2))]
  ELSE WithCRC(tamperBody(body(f), kind))

\* the inputs of Combine: shares of the current set in any order, all as they
\* are, or one of them tampered with, or one of them replaced by an earlier one
CombineInputs(sh) ==
  LET plain == {[k \in DOMAIN q |-> sh[q[k]]] : q \in InjSeqs(Len(sh))}
  IN plain
     \cup {[in EXCEPT ![k] = Tamper(@, kind)] :
             in \in plain \ {<<>>}, k \in 1..MaxN, kind \in TamperKinds}
     \cup {[in EXCEPT ![k] = in[1]] : in \in plain \ {<<>>}, k \in 2..MaxN}

\* ------------------------------------------------------------------------
\* Inputs of the storage and of the rotator
\* ------------------------------------------------------------------------

Handles == {"mem", "file", "multi"}
Backends == {"mem", "file"}

\* the indices and frames the storage is called with (to a backend a frame is
\* any byte string)
StorageIndices == {2, 12}
StorageFrames == {<<>>, <<7, 9>>}
Batches == UNION {[K -> StorageFrames] : K \in SUBSET StorageIndices}

MaxStarts == 1  \* calls of Start
MaxTicks == 2   \* ticks of the workers

Workers == 1..MaxStarts

\* the bytes crypto/rand may yield during a tick
RngBytes == {0, 90}

RotatorSecrets == {<<104>>}

\* the shares a dealer made of S, of which the storage of the rotator holds
\* some
dealt(S) == Split(S, 2, 3, 124).val

\* what the rotator is built on: the handle, the map of the MultiStorage, the
\* shares of the dealer kept in the storage, those of them with a damaged
\* CRC, and TotalShares
Scenarios ==
  {[Storage |-> "mem", backends |-> <<>>, keep |-> <<1, 2, 3>>, flip |-> {}, TotalShares |-> 3],
   [Storage |-> "mem", backends |-> <<>>, keep |-> <<1, 2>>, flip |-> {}, TotalShares |-> 3],
   [Storage |-> "mem", backends |-> <<>>, keep |-> <<1>>, flip |-> {}, TotalShares |-> 3],
   [Storage |-> "mem", backends |-> <<>>, keep |-> <<1, 3>>, flip |-> {}, TotalShares |-> 2],
   [Storage |-> "mem", backends |-> <<>>, keep |-> <<1, 2, 3>>, flip |-> {2}, TotalShares |-> 3],
   [Storage |-> "mem", backends |-> <<>>, keep |-> <<1, 2>>, flip |-> {2}, TotalShares |-> 2],
   [Storage |-> "file", backends |-> <<>>, keep |-> <<1, 2, 3>>, flip |-> {}, TotalShares |-> 3],
   [Storage |-> "multi", backends |-> <<"mem", "mem">>, keep |-> <<1, 2>>, flip |-> {},
    TotalShares |-> 3],
   [Storage |-> "multi", backends |-> <<"mem", "mem", "file">>, keep |-> <<1, 2>>,
    flip |-> {}, TotalShares |-> 3],
   [Storage |-> "multi", backends |-> <<"mem", "file", "mem">>, keep |-> <<1, 2, 3>>,
    flip |-> {}, TotalShares |-> 3]}

keptShares(sc, all) ==
  [k \in DOMAIN sc.keep |->
     IF sc.keep[k] \in sc.flip THEN Tamper(all[sc.keep[k]], "crc") ELSE all[sc.keep[k]]]

\* the configurations NewRotator is called with
Configs(sc) ==
  {[Storage |-> sc.Storage, Threshold |-> t, TotalShares |-> sc.TotalShares,
    RotationInterval |-> 1, ProactiveOnly |-> p] : t \in {1, 2}, p \in BOOLEAN}

\* ------------------------------------------------------------------------
\* State
\* ------------------------------------------------------------------------

VARIABLES
  secret,     \* the secret given to Split
  params,     \* <<t, n>> given to Split
  shares,     \* the frames Split returned, <<>> before
  call,       \* the last call of the sharer or of the storage: [op, arg, res]
  store,      \* the state of the storage backends
  cfg,        \* Rotator.cfg
  stopCh,     \* Rotator.stopCh: "open" or "closed"
  stopped,    \* the counter of the WaitGroup Rotator.stopped
  worker,     \* per call of Start, the goroutine it started: [pc, pending, tick]
  client,     \* the caller of Stop: "idle", "waiting" (in Wait) or "returned"
  crashed,    \* the process ended on a panic
  restarted,  \* Start has been called after Stop
  ticks,      \* the ticks started so far
  rand,       \* the bytes crypto/rand may yield to the rotator
  sound,      \* every quorum of the first content of the storage gave the secret
  inflight,   \* a BatchSet a second goroutine is in: [active, h, shares, pending, before]
  heap        \* the byte arrays behind the slices of a MemoryStorage and of its caller

vars == <<secret, params, shares, call, store, cfg, stopCh, stopped, worker, client,
          crashed, restarted, ticks, rand, sound, inflight, heap>>

sharerVars == <<secret, params, shares>>
rotatorVars ==
  <<cfg, stopCh, stopped, worker, client, crashed, restarted, ticks, rand, sound,
    inflight, heap>>

noCall == [op |-> "none", arg |-> <<>>, res |-> Ok(<<>>)]

\* no tick yet: the record of the last tick of a worker holds its outcome, the
\* indices ListShares returned, the storage it read, the keys it wrote and the
\* batch it gave to StoreShares
noTick ==
  [status |-> "none", listed |-> {}, err |-> <<>>, before |-> newStorage, keys |-> {},
   made |-> <<>>, stopSeen |-> FALSE]

\* no BatchSet in flight
noBatch == [active |-> FALSE, h |-> "mem", shares |-> <<>>, pending |-> {}, before |-> newStorage]

\* no slice made: the arrays by address, the map of the MemoryStorage (an index to
\* the address of its array) and the addresses of the slices its caller holds
noHeap == [variant |-> "copying", bufs |-> <<>>, data |-> <<>>, held |-> {}]

noWorker == [pc |-> "none", pending |-> <<>>, tick |-> noTick]

noRotator ==
  /\ cfg = [Storage |-> "nil", Threshold |-> 0, TotalShares |-> 0,
            RotationInterval |-> 0, ProactiveOnly |-> FALSE]
  /\ stopCh = "open"
  /\ stopped = 0
  /\ worker = [w \in Workers |-> noWorker]
  /\ client = "idle"
  /\ crashed = FALSE
  /\ restarted = FALSE
  /\ ticks = 0
  /\ rand = {}
  /\ sound = TRUE
  /\ inflight = noBatch
  /\ heap = noHeap

\* ------------------------------------------------------------------------
\* The sharer: Split, Combine and the JSON round trip applied to inputs
\* ------------------------------------------------------------------------

InitSharer ==
  /\ secret \in Secrets
  /\ params \in Params
  /\ shares = <<>>
  /\ call = noCall
  /\ store = newStorage
  /\ noRotator

\* Split(secret, t, n) with the bytes the random source yields
DoSplit ==
  /\ shares = <<>>
  /\ \E pat \in RngPatterns :
       call' = [op |-> "split", arg |-> <<>>,
                res |-> SplitWithReader(stream(pat, Len(secret) * (params[1] - 1)),
                                        secret, params[1], params[2])]
  /\ shares' = call'.res.val
  /\ UNCHANGED <<secret, params, store, rotatorVars>>

\* Combine(frames), on the frames of the Split just made
DoCombine ==
  /\ call.op = "split"
  /\ \E in \in CombineInputs(shares) :
       call' = [op |-> "combine", arg |-> in, res |-> Combine(in)]
  /\ UNCHANGED <<sharerVars, store, rotatorVars>>

\* FromJSON(ToJSON(frame)), on a frame of the Split just made
DoJSON ==
  /\ call.op = "split"
  /\ \E i \in DOMAIN shares :
       call' = [op |-> "json", arg |-> <<shares[i]>>, res |-> roundTrip(ToJSON(shares[i]))]
  /\ UNCHANGED <<sharerVars, store, rotatorVars>>

NextSharer == DoSplit \/ DoCombine \/ DoJSON

SpecSharer == InitSharer /\ [][NextSharer]_vars

\* ------------------------------------------------------------------------
\* The storage: the methods of the three backends called in any order
\* ------------------------------------------------------------------------

InitStorage ==
  /\ secret = <<>>
  /\ params = <<2, 2>>
  /\ shares = <<>>
  /\ call = noCall
  /\ store = newStorage
  /\ noRotator

storageCall(op, h, i, v, r) ==
  /\ store' = r.st
  /\ call' = [op |-> op, arg |-> [h |-> h, i |-> i, v |-> v], res |-> r.res]
  /\ UNCHANGED <<sharerVars, rotatorVars>>

DoSetShare ==
  \E h \in Handles, i \in StorageIndices, F \in StorageFrames :
    storageCall("set", h, i, F, SetShare(store, h, i, F))

DoGetShare ==
  \E h \in Handles, i \in StorageIndices :
    storageCall("get", h, i, <<>>, [st |-> store, res |-> GetShare(store, h, i)])

DoListShares ==
  \E h \in Handles :
    \E l \in ListShares(store, h) :
      storageCall("list", h, 0, <<>>, [st |-> store, res |-> Ok(l)])

DoDeleteShare ==
  \E h \in Handles, i \in StorageIndices :
    storageCall("delete", h, i, <<>>, DeleteShare(store, h, i))

DoBatchSet ==
  \E h \in Handles, batch \in Batches :
    \E r \in BatchSet(store, h, batch) :
      storageCall("batch", h, 0, batch, r)

DoAssignStorage ==
  \E i \in StorageIndices, b \in Backends :
    storageCall("assign", "multi", i, b, [st |-> AssignStorage(store, i, b), res |-> Ok(<<>>)])

NextStorage ==
  \/ DoSetShare
  \/ DoGetShare
  \/ DoListShares
  \/ DoDeleteShare
  \/ DoBatchSet
  \/ DoAssignStorage

SpecStorage == InitStorage /\ [][NextStorage]_vars

\* ------------------------------------------------------------------------
\* The rotator: Start, the worker with its ticks, Stop.  The timer may fire
\* whenever the worker waits in its select; the writes of BatchSet are steps
\* of their own; a panic ends the process.
\* ------------------------------------------------------------------------

\* every t frames of the storage, in any order, combine to S
quorumsYield(st, h, t, S) ==
  \A q \in {p \in [1..t -> {x \in 1..3 : GetShare(st, h, x).ok}] :
              \A i, j \in 1..t : i # j => p[i] # p[j]} :
    Combine([k \in 1..t |-> GetShare(st, h, q[k]).val]) = Ok(S)

\* NewRotator on a storage of a scenario; ws are the calls of Start there may be
InitRotatorWith(scenarios, bytes, ws) ==
  /\ secret \in RotatorSecrets
  /\ params = <<2, 3>>
  /\ shares = <<>>
  /\ call = noCall
  /\ \E sc \in scenarios :
       /\ cfg \in {c \in Configs(sc) : NewRotator(c).ok}
       /\ \E r \in BatchSet([newStorage EXCEPT !.backends = sc.backends], sc.Storage,
                            batchOf(keptShares(sc, dealt(secret)), 1, <<>>)) :
            store = r.st
  /\ stopCh = "open"
  /\ stopped = 0
  /\ worker = [w \in ws |-> noWorker]
  /\ client = "idle"
  /\ crashed = FALSE
  /\ restarted = FALSE
  /\ ticks = 0
  /\ rand = bytes
  /\ sound = quorumsYield(store, cfg.Storage, cfg.Threshold, secret)
  /\ inflight = noBatch
  /\ heap = noHeap

InitRotatorOn(scenarios, bytes) == InitRotatorWith(scenarios, bytes, Workers)

InitRotator == InitRotatorOn(Scenarios, RngBytes)

\* the rotator on a full storage and on a composite that lacks a backend
InitLifecycle ==
  InitRotatorOn({sc \in Scenarios :
                   \/ sc.Storage = "mem" /\ Len(sc.keep) = 3 /\ sc.flip = {}
                   \/ sc.Storage = "multi" /\ Len(sc.backends) = 2},
                {90})

\* what no step of the rotator changes
fixed == <<sharerVars, call, cfg, rand, sound, inflight, heap>>

\* Start: a new ticker, stopped.Add(1), and the goroutine
Start ==
  /\ ~crashed /\ client # "waiting"
  /\ \E w \in DOMAIN worker :
       /\ worker[w].pc = "none"
       /\ \A v \in DOMAIN worker : v < w => worker[v].pc # "none"
       /\ worker' = [worker EXCEPT ![w].pc = "select"]
  /\ stopped' = stopped + 1
  /\ restarted' = (restarted \/ stopCh = "closed")
  /\ UNCHANGED <<fixed, store, stopCh, client, crashed, ticks>>

\* the worker after the part of tick before StoreShares
afterRead(out, idxs, st) ==
  IF out.panic
  THEN [pc |-> "panicked", pending |-> <<>>,
        tick |-> [noTick EXCEPT !.status = "panic", !.listed = Range(idxs), !.before = st]]
  ELSE IF out.err # <<>>
  THEN [pc |-> "select", pending |-> <<>>,
        tick |-> [noTick EXCEPT !.status = "error", !.listed = Range(idxs), !.before = st,
                                !.err = out.err]]
  ELSE [pc |-> "write", pending |-> batchOf(out.shares, 1, <<>>),
        tick |-> [noTick EXCEPT !.status = "writing", !.listed = Range(idxs), !.before = st,
                                !.keys = {out.shares[k][10] : k \in DOMAIN out.shares},
                                !.made = batchOf(out.shares, 1, <<>>)]]

\* (a tick that deletes the shares it listed when it fails before StoreShares)
TickReadDiscarding(w) ==
  /\ ~crashed /\ worker[w].pc = "select" /\ ticks < MaxTicks
  /\ ticks' = ticks + 1
  /\ \E idxs \in ListShares(store, cfg.Storage), rng \in rand :
       \E out \in tickListed(store, cfg, idxs, rng) :
         /\ worker' = [worker EXCEPT ![w] = afterRead(out, idxs, store)]
         /\ crashed' = out.panic
         /\ store' = IF out.err = <<>> THEN store ELSE [store EXCEPT !.data = <<>>, !.dir = <<>>]
  /\ UNCHANGED <<fixed, stopCh, stopped, client, restarted>>

\* tick from ListShares to the new shares, run by the worker w
tickReads(w) ==
  /\ ~crashed /\ worker[w].pc = "select"
  /\ \E idxs \in ListShares(store, cfg.Storage), rng \in rand :
       \E out \in tickListed(store, cfg, idxs, rng) :
         /\ worker' = [worker EXCEPT ![w] = afterRead(out, idxs, store)]
         /\ crashed' = out.panic
  /\ UNCHANGED <<fixed, store, stopCh, stopped, client, restarted>>

\* case <-ticker.C: tick lists and retrieves the shares and makes the new ones
TickRead(w) ==
  /\ ticks < MaxTicks
  /\ ticks' = ticks + 1
  /\ tickReads(w)

\* the worker after a SetShare of BatchSet returned res
afterWrite(wk, res, k) ==
  IF res.ok THEN [wk EXCEPT !.pending = mapDelete(@, k)]
  ELSE [wk EXCEPT !.pc = "select", !.pending = <<>>, !.tick.status = "error",
                  !.tick.err = <<"store new shares", res.err>>]

\* (and a write that leaves only the header of the frame in the storage)
writeStepTorn(w, k, r) ==
  /\ store' = SetShare(store, cfg.Storage, k, SubSeq(worker[w].pending[k], 1, headLen)).st
  /\ worker' = [worker EXCEPT ![w] = afterWrite(@, r.res, k)]

writeStep(w, k, r) ==
  /\ store' = r.st
  /\ worker' = [worker EXCEPT ![w] = afterWrite(@, r.res, k)]

\* StoreShares: one turn of the loop of BatchSet
TickWrite(w) ==
  /\ ~crashed /\ worker[w].pc = "write"
  /\ \E k \in DOMAIN worker[w].pending :
       writeStep(w, k, SetShare(store, cfg.Storage, k, worker[w].pending[k]))
  /\ UNCHANGED <<fixed, stopCh, stopped, client, crashed, restarted, ticks>>

\* BatchSet and tick return nil; the worker is back in its select
TickDone(w) ==
  /\ ~crashed /\ worker[w].pc = "write" /\ DOMAIN worker[w].pending = {}
  /\ worker' = [worker EXCEPT ![w].pc = "select", ![w].tick.status = "ok"]
  /\ UNCHANGED <<fixed, store, stopCh, stopped, client, crashed, restarted, ticks>>

\* case <-r.stopCh: return, and the deferred stopped.Done()
WorkerExit(w) ==
  /\ ~crashed /\ worker[w].pc = "select" /\ stopCh = "closed"
  /\ worker' = [worker EXCEPT ![w].pc = "exited"]
  /\ stopped' = stopped - 1
  /\ UNCHANGED <<fixed, store, stopCh, client, crashed, restarted, ticks>>

\* Stop: close(r.stopCh), which panics on a closed channel
StopCall ==
  /\ ~crashed /\ client # "waiting"
  /\ IF stopCh = "closed"
     THEN crashed' = TRUE /\ UNCHANGED <<stopCh, client, worker>>
     ELSE /\ stopCh' = "closed"
          /\ client' = "waiting"
          /\ worker' = [w \in DOMAIN worker |->
                          IF worker[w].pc = "write"
                          THEN [worker[w] EXCEPT !.tick.stopSeen = TRUE] ELSE worker[w]]
          /\ UNCHANGED crashed
  /\ UNCHANGED <<fixed, store, stopped, restarted, ticks>>

\* Stop: r.stopped.Wait() returns (and a Stop that returns without the wait)
StopReturnNoWait ==
  /\ ~crashed /\ client = "waiting"
  /\ client' = "returned"
  /\ UNCHANGED <<fixed, store, stopCh, stopped, worker, crashed, restarted, ticks>>

StopReturn ==
  /\ ~crashed /\ client = "waiting" /\ stopped = 0
  /\ client' = "returned"
  /\ UNCHANGED <<fixed, store, stopCh, stopped, worker, crashed, restarted, ticks>>

NextRotator ==
  \/ Start
  \/ \E w \in Workers : TickRead(w)
  \/ \E w \in Workers : TickWrite(w)
  \/ \E w \in Workers : TickDone(w)
  \/ \E w \in Workers : WorkerExit(w)
  \/ StopCall
  \/ StopReturn

SpecRotator == InitRotator /\ [][NextRotator]_vars

SpecLifecycle == InitLifecycle /\ [][NextRotator]_vars


\* ------------------------------------------------------------------------
\* The rotator on storage contents its ticks fail on
\* ------------------------------------------------------------------------

\* one share only; a share with a damaged CRC; a composite that lists an
\* index its backend does not hold; fewer shares than TotalShares; a
\* TotalShares that Split rejects; and a storage the ticks succeed on
FailingScenarios ==
  {[Storage |-> "mem", backends |-> <<>>, keep |-> <<1>>, flip |-> {}, TotalShares |-> 3],
   [Storage |-> "mem", backends |-> <<>>, keep |-> <<1, 2, 3>>, flip |-> {2}, TotalShares |-> 3],
   [Storage |-> "multi", backends |-> <<"mem", "mem", "file">>, keep |-> <<1, 2>>,
    flip |-> {}, TotalShares |-> 3],
   [Storage |-> "mem", backends |-> <<>>, keep |-> <<1, 2>>, flip |-> {}, TotalShares |-> 3],
   [Storage |-> "mem", backends |-> <<>>, keep |-> <<1, 2, 3>>, flip |-> {}, TotalShares |-> 256],
   [Storage |-> "file", backends |-> <<>>, keep |-> <<1, 2, 3>>, flip |-> {}, TotalShares |-> 3]}

InitFailing == InitRotatorOn(FailingScenarios, {90})

SpecFailing == InitFailing /\ [][NextRotator]_vars

\* ------------------------------------------------------------------------
\* MultiPartyAuthorize and BreakGlassRecovery (shamir.go), called on the
\* storage contents of the scenarios
\* ------------------------------------------------------------------------

\* a slice expression with a negative bound panics
slicePanic == [ok |-> FALSE, val |-> <<>>, err |-> "panic: slice bounds out of range"]

\* (a variant that hands Combine every share retrieved)
authorizeCombineAll(shs, threshold) == Combine(shs)

\* Combine(shs[:threshold]), behind the check of len(shs)
authorizeCombine(shs, threshold) ==
  IF Len(shs) < threshold THEN Err("shamir: insufficient shares for threshold")
  ELSE IF threshold < 0 THEN slicePanic
  ELSE Combine(SubSeq(shs, 1, threshold))

authorizeRetrieved(shs, threshold) ==
  IF ~shs.ok THEN shs ELSE authorizeCombine(shs.val, threshold)

MultiPartyAuthorize(st, h, indices, threshold) ==
  authorizeRetrieved(RetrieveShares(indices, st, h), threshold)

BreakGlassRecovery(st, h, indices, threshold) ==
  MultiPartyAuthorize(st, h, indices, threshold)

\* the index lists and thresholds the two are called with
MaxIndices == 3
AuthorizeIndices == UNION {[1..l -> 1..3] : l \in 0..MaxIndices}
AuthorizeThresholds == {0 - 1, 0, 1, 2, 3, 4}

InitAuthorize == InitRotatorOn(Scenarios, {90})

\* one call on each storage content

DoMultiPartyAuthorize ==
  /\ call.op = "none"
  /\ \E indices \in AuthorizeIndices, threshold \in AuthorizeThresholds :
       call' = [op |-> "authorize",
                arg |-> [h |-> cfg.Storage, indices |-> indices, threshold |-> threshold],
                res |-> MultiPartyAuthorize(store, cfg.Storage, indices, threshold)]
  /\ UNCHANGED <<sharerVars, store, rotatorVars>>

DoBreakGlassRecovery ==
  /\ call.op = "none"
  /\ \E indices \in AuthorizeIndices, threshold \in AuthorizeThresholds :
       call' = [op |-> "breakglass",
                arg |-> [h |-> cfg.Storage, indices |-> indices, threshold |-> threshold],
                res |-> BreakGlassRecovery(store, cfg.Storage, indices, threshold)]
  /\ UNCHANGED <<sharerVars, store, rotatorVars>>

NextAuthorize == DoMultiPartyAuthorize \/ DoBreakGlassRecovery

SpecAuthorize == InitAuthorize /\ [][NextAuthorize]_vars

\* ------------------------------------------------------------------------
\* NewRotator (rotator.go) applied to configurations
\* ------------------------------------------------------------------------

\* the configurations NewRotator is given: no storage or one of the three,
\* thresholds and totals around the ends of 2..255, intervals around 0
RotatorConfigs ==
  [Storage : {"nil"} \cup Handles,
   Threshold : {0 - 1, 0, 1, 2, 3, 255, 256},
   TotalShares : {0, 1, 2, 3, 255, 256, 300},
   RotationInterval : {0 - 1, 0, 1},
   ProactiveOnly : BOOLEAN]

InitConfig ==
  /\ secret = <<>>
  /\ params = <<2, 2>>
  /\ shares = <<>>
  /\ call = noCall
  /\ store = newStorage
  /\ cfg \in RotatorConfigs
  /\ stopCh = "open"
  /\ stopped = 0
  /\ worker = [w \in Workers |-> noWorker]
  /\ client = "idle"
  /\ crashed = FALSE
  /\ restarted = FALSE
  /\ ticks = 0
  /\ rand = {}
  /\ sound = TRUE
  /\ inflight = noBatch
  /\ heap = noHeap

DoNewRotator ==
  /\ call.op = "none"
  /\ call' = [op |-> "newrotator", arg |-> cfg, res |-> NewRotator(cfg)]
  /\ UNCHANGED <<sharerVars, store, rotatorVars>>

NextConfig == DoNewRotator

SpecConfig == InitConfig /\ [][NextConfig]_vars

\* ------------------------------------------------------------------------
\* The text encodings of a share (shamir.go): hex as a string of ASCII
\* codes, base64 as a string of symbols
\* ------------------------------------------------------------------------

\* hextable = "0123456789abcdef"
hexDigit(v) == IF v < 10 THEN 48 + v ELSE 87 + v

\* hex.EncodeToString, from byte k of b on
RECURSIVE hexEncode(_, _)
hexEncode(b, k) ==
  IF k > Len(b) THEN <<>>
  ELSE <<hexDigit(b[k] \div 16), hexDigit(b[k] % 16)>> \o hexEncode(b, k + 1)

EncodeHex(share) == hexEncode(share, 1)

\* fromHexChar: the value of a digit, 16 for a character that is none
fromHexChar(c) ==
  IF c \in 48..57 THEN c - 48
  ELSE IF c \in 97..102 THEN c - 87
  ELSE IF c \in 65..70 THEN c - 55
  ELSE 16

\* hex.Decode from character k on, out the bytes decoded so far: the bytes
\* come back beside the error
RECURSIVE hexDecode(_, _, _)
hexDecode(s, k, out) ==
  IF k > Len(s) THEN Ok(out)
  ELSE IF fromHexChar(s[k]) = 16
  THEN [ok |-> FALSE, val |-> out, err |-> "encoding/hex: invalid byte"]
  ELSE IF k = Len(s)
  THEN [ok |-> FALSE, val |-> out, err |-> "encoding/hex: odd length hex string"]
  ELSE IF fromHexChar(s[k + 1]) = 16
  THEN [ok |-> FALSE, val |-> out, err |-> "encoding/hex: invalid byte"]
  ELSE hexDecode(s, k + 2, Append(out, (fromHexChar(s[k]) * 16) + fromHexChar(s[k + 1])))

\* DecodeHex: hex.DecodeString and nothing after it
DecodeHex(s) == hexDecode(s, 1, <<>>)

EncodeBase64(share) == EncodeToString(share)

\* DecodeBase64: base64.StdEncoding.DecodeString and nothing after it
DecodeBase64(s) == DecodeString(s)

\* the strings the decoders are given, made from the encoding e of a frame:
\* e, its prefixes, e with a character that is no digit, e in upper case
prefixes(e) == {SubSeq(e, 1, l) : l \in 0..Len(e)}
withBadChar(e, bad) == {[e EXCEPT ![k] = bad] : k \in DOMAIN e}
upperCase(e) == [k \in DOMAIN e |-> IF e[k] \in 97..102 THEN e[k] - 32 ELSE e[k]]

HexStrings(frames) ==
  UNION {prefixes(EncodeHex(f)) \cup withBadChar(EncodeHex(f), 103)
           \cup {upperCase(EncodeHex(f))} : f \in frames}

Base64Strings(frames) ==
  UNION {prefixes(EncodeBase64(f)) \cup withBadChar(EncodeBase64(f), 65) : f \in frames}

\* the frames are those a dealer made of the secret
InitDecode ==
  /\ secret \in Secrets
  /\ params = <<2, 2>>
  /\ shares = IF secret = <<>> THEN <<>> ELSE Split(secret, 2, 2, 124).val
  /\ call = noCall
  /\ store = newStorage
  /\ noRotator

DoDecodeHex ==
  /\ call.op = "none"
  /\ \E s \in HexStrings(Range(shares)) :
       call' = [op |-> "hex", arg |-> s, res |-> DecodeHex(s)]
  /\ UNCHANGED <<sharerVars, store, rotatorVars>>

DoDecodeBase64 ==
  /\ call.op = "none"
  /\ \E s \in Base64Strings(Range(shares)) :
       call' = [op |-> "base64", arg |-> s, res |-> DecodeBase64(s)]
  /\ UNCHANGED <<sharerVars, store, rotatorVars>>

NextDecode == DoDecodeHex \/ DoDecodeBase64

SpecDecode == InitDecode /\ [][NextDecode]_vars

\* ------------------------------------------------------------------------
\* A reader of the storage of a running rotator: GetShare between the steps
\* of the worker (SetShare and GetShare of a backend exclude each other by
\* its lock, so a GetShare falls between two writes of a tick)
\* ------------------------------------------------------------------------

\* storages whose frames are those the dealer made: all of them behind a
\* composite over the memory and the directory, and shares 1 and 3 in the
\* memory with a rotator of two shares
InitReader ==
  InitRotatorOn({sc \in Scenarios :
                   /\ sc.flip = {}
                   /\ \/ sc.Storage = "multi" /\ Len(sc.keep) = 3
                      \/ sc.keep = <<1, 3>>},
                {90})

ReaderGet ==
  /\ ~crashed
  /\ \E i \in 1..3 :
       call' = [op |-> "read", arg |-> [h |-> cfg.Storage, i |-> i],
                res |-> GetShare(store, cfg.Storage, i)]
  /\ UNCHANGED <<sharerVars, store, rotatorVars>>

\* the worker is started and ticks; Stop is not called
NextReader ==
  \/ Start
  \/ \E w \in Workers : TickRead(w)
  \/ \E w \in Workers : TickWrite(w)
  \/ \E w \in Workers : TickDone(w)
  \/ ReaderGet

SpecReader == InitReader /\ [][NextReader]_vars

\* ------------------------------------------------------------------------
\* One backend used by two goroutines: one inside BatchSet, whose loop takes
\* and releases the lock of the backend in each SetShare, the other calling
\* GetShare and ListShares, which take the read lock
\* ------------------------------------------------------------------------

InitConcurrent == InitStorage

\* BatchSet(shares) is entered on the backend h; nothing is locked yet
BatchSetCall ==
  /\ ~inflight.active
  /\ \E h \in Backends, shs \in Batches :
       /\ inflight' = [active |-> TRUE, h |-> h, shares |-> shs, pending |-> DOMAIN shs,
                       before |-> store]
       /\ call' = [op |-> "begin", arg |-> [h |-> h, i |-> 0, v |-> shs], res |-> Ok(<<>>)]
  /\ UNCHANGED <<sharerVars, store, cfg, stopCh, stopped, worker, client, crashed,
                 restarted, ticks, rand, sound, heap>>

\* the state of the call after a SetShare of its loop returned res
afterSet(b, res, k) ==
  IF res.ok THEN [b EXCEPT !.pending = @ \ {k}] ELSE [b EXCEPT !.active = FALSE]

\* one turn of the loop: SetShare(idx, s) under the lock, for a key the
\* range has not visited yet
BatchSetWrite ==
  /\ inflight.active
  /\ \E k \in inflight.pending :
       /\ store' = SetShare(store, inflight.h, k, inflight.shares[k]).st
       /\ inflight' = afterSet(inflight,
                               SetShare(store, inflight.h, k, inflight.shares[k]).res, k)
       /\ call' = IF SetShare(store, inflight.h, k, inflight.shares[k]).res.ok THEN call
                  ELSE [op |-> "batch", arg |-> [h |-> inflight.h, i |-> 0,
                                                 v |-> inflight.shares],
                        res |-> SetShare(store, inflight.h, k, inflight.shares[k]).res]
  /\ UNCHANGED <<sharerVars, cfg, stopCh, stopped, worker, client, crashed,
                 restarted, ticks, rand, sound, heap>>

\* the range is over: return nil
BatchSetReturn ==
  /\ inflight.active /\ inflight.pending = {}
  /\ inflight' = [inflight EXCEPT !.active = FALSE]
  /\ call' = [op |-> "batch", arg |-> [h |-> inflight.h, i |-> 0, v |-> inflight.shares],
              res |-> Ok(<<>>)]
  /\ UNCHANGED <<sharerVars, store, cfg, stopCh, stopped, worker, client, crashed,
                 restarted, ticks, rand, sound, heap>>

NextConcurrent ==
  \/ BatchSetCall
  \/ BatchSetWrite
  \/ BatchSetReturn
  \/ DoGetShare
  \/ DoListShares

SpecConcurrent == InitConcurrent /\ [][NextConcurrent]_vars

\* ------------------------------------------------------------------------
\* The rotator with its scheduling.  The timer may fire at every return to
\* the select, without end.  A storage call returns, so the steps of a tick
\* in flight are taken (weak fairness); select picks at random among the
\* cases that are ready, so a worker that is at its select again and again
\* with stopCh closed takes that case (strong fairness); Wait returns once
\* the counter is 0 (weak fairness).
\* ------------------------------------------------------------------------

\* case <-ticker.C, any number of times
TickReadAgain(w) ==
  /\ tickReads(w)
  /\ UNCHANGED ticks

NextLive ==
  \/ Start
  \/ \E w \in Workers : TickReadAgain(w)
  \/ \E w \in Workers : TickWrite(w)
  \/ \E w \in Workers : TickDone(w)
  \/ \E w \in Workers : WorkerExit(w)
  \/ StopCall
  \/ StopReturn

Scheduling ==
  /\ \A w \in Workers :
       /\ WF_vars(TickWrite(w))
       /\ WF_vars(TickDone(w))
       /\ SF_vars(WorkerExit(w))
  /\ WF_vars(StopReturn)

\* a memory storage that holds the three shares, or shares 1 and 2 only
InitLive ==
  InitRotatorOn({sc \in Scenarios :
                   sc.Storage = "mem" /\ sc.flip = {} /\ sc.TotalShares = 3 /\ Len(sc.keep) >= 2},
                {90})

SpecLive == InitLive /\ [][NextLive]_vars /\ Scheduling

\* the same on storages that hold every share, where no tick panics
InitSteady ==
  InitRotatorOn({sc \in Scenarios : Len(sc.keep) = 3 /\ sc.TotalShares = 3}, {90})

SpecSteady == InitSteady /\ [][NextLive]_vars /\ Scheduling

\* ------------------------------------------------------------------------
\* The field kernel called on every byte
\* ------------------------------------------------------------------------

InitField ==
  /\ secret = <<>>
  /\ params = <<2, 2>>
  /\ shares = <<>>
  /\ call = noCall
  /\ store = newStorage
  /\ noRotator

DoMul ==
  /\ call.op = "none"
  /\ \E a \in Byte, b \in Byte :
       call' = [op |-> "mul", arg |-> <<a, b>>, res |-> mul(a, b)]
  /\ UNCHANGED <<sharerVars, store, rotatorVars>>

DoInv ==
  /\ call.op = "none"
  /\ \E a \in Byte :
       call' = [op |-> "inv", arg |-> a, res |-> invChecked(a)]
  /\ UNCHANGED <<sharerVars, store, rotatorVars>>

NextField == DoMul \/ DoInv

SpecField == InitField /\ [][NextField]_vars

\* ------------------------------------------------------------------------
\* The two MemoryStorage of storage/drivers with the slices as Go has them:
\* a slice is the address of a byte array, ms.data maps an index to a slice,
\* and the caller holds the slices it made and those GetShare returned.  The
\* first MemoryStorage ("copying") copies in SetShare and in GetShare, the
\* second ("sharing") stores and returns the slice itself.
\* ------------------------------------------------------------------------

MaxBufs == 4   \* byte arrays allocated

AliasIndices == {2}
AliasFrames == {<<7, 9>>, <<5>>}
MutBytes == {0}

\* c := make([]byte, len(share)); copy(c, share): the address of the copy is
\* the next one
copyOf(hp, ref) == [hp EXCEPT !.bufs = Append(@, hp.bufs[ref])]

\* the first MemoryStorage
SetShareCopying(hp, index, ref) ==
  [hp |-> [copyOf(hp, ref) EXCEPT !.data = mapPut(@, index, Len(hp.bufs) + 1)],
   res |-> Ok(<<>>)]

GetShareCopying(hp, index) ==
  IF index \in DOMAIN hp.data
  THEN [hp |-> [copyOf(hp, hp.data[index]) EXCEPT !.held = @ \cup {Len(hp.bufs) + 1}],
        res |-> Ok(Len(hp.bufs) + 1)]
  ELSE [hp |-> hp, res |-> Err("memory: share not found")]

\* the second MemoryStorage
SetShareSharing(hp, index, ref) ==
  [hp |-> [hp EXCEPT !.data = mapPut(@, index, ref)], res |-> Ok(<<>>)]

GetShareSharing(hp, index) ==
  IF index \in DOMAIN hp.data
  THEN [hp |-> [hp EXCEPT !.held = @ \cup {hp.data[index]}], res |-> Ok(hp.data[index])]
  ELSE [hp |-> hp, res |-> Err("shamir: share not found")]

\* the bytes GetShare(index) returns on hp
stored(hp, index) == hp.bufs[hp.data[index]]

InitAlias ==
  /\ secret = <<>>
  /\ params = <<2, 2>>
  /\ shares = <<>>
  /\ call = noCall
  /\ store = newStorage
  /\ cfg = [Storage |-> "nil", Threshold |-> 0, TotalShares |-> 0,
            RotationInterval |-> 0, ProactiveOnly |-> FALSE]
  /\ stopCh = "open"
  /\ stopped = 0
  /\ worker = [w \in Workers |-> noWorker]
  /\ client = "idle"
  /\ crashed = FALSE
  /\ restarted = FALSE
  /\ ticks = 0
  /\ rand = {}
  /\ sound = TRUE
  /\ inflight = noBatch
  /\ \E v \in {"copying", "sharing"} : heap = [noHeap EXCEPT !.variant = v]

aliasVars == <<sharerVars, cfg, stopCh, stopped, worker, client, crashed, restarted, ticks,
               rand, sound, inflight>>

\* the caller makes a slice
DoMakeSlice ==
  /\ Len(heap.bufs) < MaxBufs
  /\ \E f \in AliasFrames :
       /\ heap' = [heap EXCEPT !.bufs = Append(@, f), !.held = @ \cup {Len(heap.bufs) + 1}]
       /\ call' = [op |-> "make", arg |-> f, res |-> Ok(Len(heap.bufs) + 1)]
  /\ UNCHANGED <<aliasVars, store>>

\* SetShare(i, F) on a slice the caller holds; the storage of the model that
\* holds frames by value follows the first MemoryStorage
DoSliceSet ==
  /\ \E i \in AliasIndices, ref \in heap.held :
       \/ /\ heap.variant = "copying" /\ Len(heap.bufs) < MaxBufs
          /\ heap' = SetShareCopying(heap, i, ref).hp
          /\ store' = MemorySetShare(store, i, heap.bufs[ref]).st
          /\ call' = [op |-> "set", arg |-> <<i, ref>>, res |-> SetShareCopying(heap, i, ref).res]
       \/ /\ heap.variant = "sharing"
          /\ heap' = SetShareSharing(heap, i, ref).hp
          /\ store' = store
          /\ call' = [op |-> "set", arg |-> <<i, ref>>, res |-> SetShareSharing(heap, i, ref).res]
  /\ UNCHANGED aliasVars

DoSliceGet ==
  /\ \E i \in AliasIndices :
       \/ /\ heap.variant = "copying" /\ Len(heap.bufs) < MaxBufs
          /\ heap' = GetShareCopying(heap, i).hp
          /\ call' = [op |-> "get", arg |-> i, res |-> GetShareCopying(heap, i).res]
       \/ /\ heap.variant = "sharing"
          /\ heap' = GetShareSharing(heap, i).hp
          /\ call' = [op |-> "get", arg |-> i, res |-> GetShareSharing(heap, i).res]
  /\ UNCHANGED <<aliasVars, store>>

\* the caller writes a byte of a slice it holds: buf[k-1] = v
DoMutate ==
  /\ \E ref \in heap.held :
       \E k \in 1..Len(heap.bufs[ref]), v \in MutBytes :
         /\ heap.bufs[ref][k] # v
         /\ heap' = [heap EXCEPT !.bufs[ref][k] = v]
         /\ call' = [op |-> "mutate", arg |-> <<ref, k, v>>, res |-> Ok(<<>>)]
  /\ UNCHANGED <<aliasVars, store>>

NextAlias == DoMakeSlice \/ DoSliceSet \/ DoSliceGet \/ DoMutate

SpecAlias == InitAlias /\ [][NextAlias]_vars

\* ------------------------------------------------------------------------
\* A rotator whose Start is called once more than in the specifications above
\* ------------------------------------------------------------------------

Starters == 1..(MaxStarts + 1)

InitStarts ==
  InitRotatorWith({sc \in Scenarios : sc.Storage = "mem" /\ Len(sc.keep) = 3 /\ sc.flip = {}},
                  {90}, Starters)

NextStarts ==
  \/ Start
  \/ \E w \in DOMAIN worker : TickRead(w)
  \/ \E w \in DOMAIN worker : TickWrite(w)
  \/ \E w \in DOMAIN worker : TickDone(w)
  \/ \E w \in DOMAIN worker : WorkerExit(w)
  \/ StopCall
  \/ StopReturn

SpecStarts == InitStarts /\ [][NextStarts]_vars
\* ------------------------------------------------------------------------
\* Properties of the sharer
\* ------------------------------------------------------------------------

\* the error kinds of the specification for the messages of Combine and of
\* the storage
ErrKind(e) ==
  CASE e = "shamir: need at least 2 shares" -> "InsufficientShares"
    [] e = "shamir: insufficient shares provided" -> "InsufficientShares"
    [] e = "shamir: invalid share length" -> "MalformedLength"
    [] e = "shamir: share length mismatch" -> "MalformedLength"
    [] e = "shamir: bad magic header" -> "BadMagic"
    [] e = "shamir: version mismatch" -> "VersionMismatch"
    [] e = "shamir: CRC32 mismatch" -> "CrcMismatch"
    [] e = "shamir: inconsistent header fields" -> "InconsistentHeader"
    [] e = "shamir: invalid or duplicate index" -> "DuplicateIndex"
    [] e = "memory: share not found" -> "NotFound"
    [] e = "filestorage: share not found" -> "NotFound"
    [] e = "filestorage: share not found or could not delete" -> "NotFound"
    [] e = noBackend -> "NoBackend"
    [] OTHER -> "Other"

\* the first k frames of in are shares of the current set, pairwise distinct
SharesOfSet(in, k) ==
  /\ k <= Len(in)
  /\ \A i \in 1..k : in[i] \in Range(shares)
  /\ \A i, j \in 1..k : i # j => in[i][10] # in[j][10]

\* C1: Combine of any t distinct shares of Split(S, t, n), in any order, is S,
\* whatever the random source yielded.
C1_CombineOfQuorumIsSecret ==
  (call.op = "combine" /\ Len(call.arg) = params[1] /\ SharesOfSet(call.arg, params[1]))
    => call.res = Ok(secret)

\* a quorum of three shares handed in out of order, with a secret of two bytes
\* and shares that differ, has been combined
C1_Witness ==
  /\ call.op = "combine" /\ params[1] = 3 /\ Len(call.arg) = 3
  /\ SharesOfSet(call.arg, 3)
  /\ call.arg[1][10] > call.arg[2][10]
  /\ Len(secret) = 2
  /\ call.arg[1][11] # call.arg[2][11]
  /\ call.res = Ok(secret)

\* C5: with K frames whose first header says threshold t, Combine fails
\* InsufficientShares when K < t; when K > t it returns what the first t frames
\* alone give, the secret when they are shares of the set, whatever follows.
C5_QuorumSelection ==
  (call.op = "combine" /\ Len(call.arg) >= 1) =>
    LET K == Len(call.arg)
        t == call.arg[1][6]
    IN /\ K < t => (~call.res.ok /\ ErrKind(call.res.err) = "InsufficientShares")
       /\ K > t => call.res = Combine(SubSeq(call.arg, 1, t))
       /\ (K > t /\ SharesOfSet(call.arg, t)) => call.res = Ok(secret)

\* three frames for threshold 2, the third not a share of the set, combined to
\* the secret
C5_Witness ==
  /\ call.op = "combine" /\ Len(call.arg) = 3 /\ call.arg[1][6] = 2
  /\ SharesOfSet(call.arg, 2)
  /\ call.arg[3] \notin Range(shares)
  /\ Len(secret) >= 1
  /\ call.res = Ok(secret)

\* a frame of the input that Combine is to reject: index 0, an index seen
\* before, a CRC that does not match, or t, n or L other than the first frame's
Offending(in) ==
  \E k \in DOMAIN in :
    \/ in[k][10] = 0
    \/ \E j \in 1..(k - 1) : in[j][10] = in[k][10]
    \/ ChecksumIEEE(body(in[k])) # SubSeq(in[k], Len(in[k]) - 3, Len(in[k]))
    \/ in[k][6] # in[1][6] \/ in[k][7] # in[1][7] \/ Uint16(in[k]) # Uint16(in[1])

\* C6: Combine returns an error whenever some frame of its input is offending,
\* wherever the frame stands in the input.
C6_EveryFrameValidated ==
  (call.op = "combine" /\ Offending(call.arg)) => ~call.res.ok

\* C7: FromJSON(ToJSON(F)) succeeds and returns F byte for byte.
C7_JSONRoundTrip ==
  call.op = "json" => call.res = Ok(call.arg[1])

\* ------------------------------------------------------------------------
\* Properties of the storage
\* ------------------------------------------------------------------------

\* the indices a call of the storage was about
touched(c) ==
  IF c.op = "batch" THEN DOMAIN c.arg.v ELSE IF c.op = "list" THEN {} ELSE {c.arg.i}

NotFound(r) == ~r.ok /\ ErrKind(r.err) = "NotFound"

\* C4: on every handle (memory, directory, composite), after a SetShare(i, F)
\* that succeeded GetShare(i) returns F; a call about other indices leaves
\* what GetShare(i) returns as it was; after a DeleteShare(i) that succeeded
\* GetShare(i) fails NotFound; DeleteShare of an absent index fails NotFound.
C4_StorageRoundTrip ==
  [][LET c == call'
     IN /\ (c.op = "set" /\ c.res.ok) => GetShare(store', c.arg.h, c.arg.i) = Ok(c.arg.v)
        /\ \A h \in Handles, i \in StorageIndices \ touched(c) :
             GetShare(store', h, i) = GetShare(store, h, i)
        /\ (c.op = "delete" /\ c.res.ok) => NotFound(GetShare(store', c.arg.h, c.arg.i))
        /\ (c.op = "delete" /\ NotFound(GetShare(store, c.arg.h, c.arg.i)))
             => NotFound(c.res)]_vars

\* a frame read back through the composite from the directory, which holds
\* the files of both indices
C4_Witness ==
  /\ call.op = "get" /\ call.arg.h = "multi"
  /\ call.res = Ok(<<7, 9>>)
  /\ call.arg.i \in DOMAIN store.backends /\ store.backends[call.arg.i] = "file"
  /\ Cardinality(DOMAIN store.dir) = 2

\* C10: SetShare, GetShare and DeleteShare of the composite on an index without
\* a backend fail NoBackend and leave the map and every backend as they were.
C10_UnassignedIndexFails ==
  [][(/\ call'.op \in {"set", "get", "delete"}
      /\ call'.arg.h = "multi"
      /\ call'.arg.i \notin DOMAIN store.backends)
       => (/\ ~call'.res.ok
           /\ ErrKind(call'.res.err) = "NoBackend"
           /\ store' = store)]_vars

\* a SetShare on an unassigned index of a composite that routes the other
\* index, the memory backend holding a share, has failed NoBackend
C10_Witness ==
  /\ call.op = "set" /\ call.arg.h = "multi"
  /\ ~call.res.ok /\ ErrKind(call.res.err) = "NoBackend"
  /\ call.arg.i \notin DOMAIN store.backends
  /\ DOMAIN store.backends # {}
  /\ DOMAIN store.data # {}

\* ------------------------------------------------------------------------
\* Properties of the rotator
\* ------------------------------------------------------------------------

inFlight == \E w \in Workers : worker[w].pc = "write"

\* C2: when the first content of the storage gave S from every quorum, then
\* whenever no tick is in flight every t frames of the storage combine to S.
C2_RotationPreservesSecret ==
  (sound /\ ~inFlight) => quorumsYield(store, cfg.Storage, cfg.Threshold, secret)

\* old payload XOR new payload at column j, for the frames of the keys, lies
\* on a polynomial of degree below t with constant term 0
zeroSharing(st0, st1, h, keys, t, j) ==
  \E co \in [1..(t - 1) -> Byte] :
    \A x \in keys :
      Xor(GetShare(st0, h, x).val[headLen + j], GetShare(st1, h, x).val[headLen + j])
        = evalAt(<<0>> \o co, x, t)

\* C3: after a tick of proactive refresh that succeeded, at every column the
\* XOR of the old and the new payloads of the refreshed frames is a (t, n)
\* sharing of 0 at the indices of the frames.
C3_RefreshAddsSharingOfZero ==
  \A w \in Workers :
    (cfg.ProactiveOnly /\ sound /\ worker[w].tick.status = "ok") =>
      \A j \in 1..Len(secret) :
        zeroSharing(worker[w].tick.before, store, cfg.Storage, worker[w].tick.keys,
                    cfg.Threshold, j)

combineFails(cur) ==
  /\ cur.ok
  /\ \A old \in (IF cfg.ProactiveOnly THEN sortSlice(cur.val) ELSE {cur.val}) :
       ~Combine(old).ok

\* the content a tick found is one the tick is to fail on: fewer frames than
\* t or than n, a listed index that GetShare fails on, frames Combine rejects
\* in whatever order ListShares returns their indices
failingContent(tk) ==
  \/ Cardinality(tk.listed) < cfg.TotalShares
  \/ \E i \in tk.listed : ~GetShare(tk.before, cfg.Storage, i).ok
  \/ \A idxs \in keyOrders(tk.listed) :
       combineFails(RetrieveShares(idxs, tk.before, cfg.Storage))

\* C8: no tick ends the worker on a panic, and a tick that found such a
\* content ended with an error reported, the worker back in its select (or
\* gone after Stop).
C8_TickFailureKeepsWorkerRunning ==
  \A w \in Workers :
    /\ worker[w].pc # "panicked"
    /\ (worker[w].tick.status \in {"ok", "error"} /\ failingContent(worker[w].tick))
         => (worker[w].tick.status = "error" /\ worker[w].pc \in {"select", "exited"})

live == {w \in Workers : worker[w].pc \in {"select", "write"}}

\* C9: a worker leaves only between ticks, with no write of its tick left;
\* when Stop has returned (and Start was not called after Stop) no worker is
\* left and no step changes the storage.
C9_StopJoinsWorker ==
  /\ [](\A w \in Workers :
          worker[w].pc = "exited" =>
            (DOMAIN worker[w].pending = {} /\ worker[w].tick.status # "writing"))
  /\ []((client = "returned" /\ ~restarted) => live = {})
  /\ [][(client = "returned" /\ ~restarted') => store' = store]_vars

\* Stop was called during a tick, the tick wrote all its shares, and Stop has
\* returned after the worker left
C9_Witness ==
  /\ client = "returned" /\ ~restarted
  /\ \E w \in Workers :
       /\ worker[w].pc = "exited"
       /\ worker[w].tick.status = "ok"
       /\ worker[w].tick.stopSeen
       /\ store # worker[w].tick.before


\* ------------------------------------------------------------------------
\* Properties of the composite and of BatchSet
\* ------------------------------------------------------------------------

\* the map of the backend b (the map of the memory, the files of the
\* directory) and the key of index i in it
entries(st, b) == IF b = "mem" THEN st.data ELSE st.dir
slot(b, i) == IF b = "mem" THEN i ELSE filePath(i)

\* the backend b is the one the composite routes i, an index of keys, to
routed(st, b, i, keys) ==
  i \in keys /\ i \in DOMAIN st.backends /\ st.backends[i] = b

\* every entry of the backend b but those of slots is in st1 as it is in st0
sameBut(st0, st1, b, slots) ==
  \A k \in ((DOMAIN entries(st0, b)) \cup (DOMAIN entries(st1, b))) \ slots :
    /\ k \in DOMAIN entries(st0, b)
    /\ k \in DOMAIN entries(st1, b)
    /\ entries(st0, b)[k] = entries(st1, b)[k]

\* C11: a SetShare or a BatchSet through the composite changes, for an index
\* i of the call assigned to the backend B, the entry of B for i only: the
\* map of the composite, every other backend and every other index of B are
\* as they were (a GetShare(i) on another backend that failed NotFound still
\* does), and after a SetShare that succeeded B holds the frame at i.
C11_RoutingPreserved ==
  [][LET c == call'
     IN (c.op \in {"set", "batch"} /\ c.arg.h = "multi") =>
          /\ store'.backends = store.backends
          /\ \A b \in Backends :
               sameBut(store, store', b,
                       {slot(b, i) : i \in {x \in touched(c) : routed(store, b, x, touched(c))}})
          /\ \A b \in Backends, i \in StorageIndices :
               ~routed(store, b, i, touched(c)) =>
                 backendGetShare(store', b, i) = backendGetShare(store, b, i)
          /\ \A b \in Backends :
               (c.op = "set" /\ c.res.ok /\ routed(store, b, c.arg.i, {c.arg.i})) =>
                 backendGetShare(store', b, c.arg.i) = Ok(c.arg.v)]_vars

\* index 2 routed to the memory backend and index 12 to the directory: a
\* BatchSet of both through the composite succeeded, and GetShare(2) on the
\* directory fails NotFound
C11_Witness ==
  /\ call.op = "batch" /\ call.arg.h = "multi" /\ call.res.ok
  /\ DOMAIN call.arg.v = {2, 12}
  /\ store.backends = (2 :> "mem") @@ (12 :> "file")
  /\ MemoryGetShare(store, 2) = Ok(call.arg.v[2])
  /\ FileGetShare(store, 12) = Ok(call.arg.v[12])
  /\ NotFound(FileGetShare(store, 2))
  /\ NotFound(MemoryGetShare(store, 12))

\* the state and the result after SetShare was called for order[1..j], one
\* call after the other
RECURSIVE setsOf(_, _, _, _, _)
setsOf(st, h, m, order, j) ==
  IF j = 0 THEN [st |-> st, res |-> Ok(<<>>)]
  ELSE SetShare(setsOf(st, h, m, order, j - 1).st, h, order[j], m[order[j]])

\* C12: BatchSet(m) leaves the state and returns the result of SetShare
\* called for the entries of m one after the other, in some order, up to the
\* first call that fails.  When it returns nil GetShare(i) returns m[i] for
\* every key i of m; in every case an index outside m reads as before on
\* every handle, and a key of m reads as before or returns m[i] in full.
C12_BatchSetIsSequenceOfSets ==
  [][LET c == call'
     IN c.op = "batch" =>
          /\ \E order \in keyOrders(DOMAIN c.arg.v), j \in 0..Cardinality(DOMAIN c.arg.v) :
               /\ \A k \in 1..(j - 1) : setsOf(store, c.arg.h, c.arg.v, order, k).res.ok
               /\ setsOf(store, c.arg.h, c.arg.v, order, j) = [st |-> store', res |-> c.res]
               /\ c.res.ok => j = Cardinality(DOMAIN c.arg.v)
          /\ c.res.ok =>
               \A i \in DOMAIN c.arg.v : GetShare(store', c.arg.h, i) = Ok(c.arg.v[i])
          /\ store'.backends = store.backends
          /\ \A b \in Backends :
               sameBut(store, store', b, {slot(b, i) : i \in DOMAIN c.arg.v})
          /\ \A h \in Handles, i \in StorageIndices \ DOMAIN c.arg.v :
               GetShare(store', h, i) = GetShare(store, h, i)
          /\ \A i \in DOMAIN c.arg.v :
               GetShare(store', c.arg.h, i) \in {GetShare(store, c.arg.h, i), Ok(c.arg.v[i])}]_vars

\* a BatchSet of two entries through a composite that routes one of the two
\* indices has failed NoBackend, and the entry of the routed index is stored
C12_Witness ==
  /\ call.op = "batch" /\ call.arg.h = "multi"
  /\ ~call.res.ok /\ ErrKind(call.res.err) = "NoBackend"
  /\ DOMAIN call.arg.v = {2, 12}
  /\ \E i \in {2, 12} :
       /\ DOMAIN store.backends = {i}
       /\ call.arg.v[i] = <<7, 9>>
       /\ GetShare(store, "multi", i) = Ok(<<7, 9>>)

\* ------------------------------------------------------------------------
\* Properties of a tick
\* ------------------------------------------------------------------------

\* the step is the part of tick before StoreShares, run by w, and tick has
\* failed in it (an error returned, or a panic)
failsBeforeWrite(w) ==
  /\ worker[w].pc = "select"
  /\ worker'[w] # worker[w]
  /\ worker'[w].tick.status \in {"error", "panic"}
  /\ ticks' # ticks

\* C13: a tick that fails before StoreShares (fewer than t indices listed, a
\* GetShare that fails, Combine or Split failing, a panic of the refresh)
\* leaves every entry of the storage as it was and has nothing left to write.
C13_FailedTickWritesNothing ==
  [][\A w \in Workers :
       failsBeforeWrite(w) =>
         /\ store' = store
         /\ worker'[w].tick.before = store
         /\ worker'[w].pending = <<>>
         /\ worker'[w].tick.keys = {}
         /\ worker'[w].pc # "write"]_vars

\* the stages a tick has failed at before StoreShares, in the model's runs:
\* the count of the indices, the retrieval, Combine and Split
failedAt(tag) ==
  \E w \in Workers :
    /\ worker[w].tick.status = "error"
    /\ \E k \in DOMAIN worker[w].tick.err : worker[w].tick.err[k] = tag
    /\ worker[w].tick.listed # {}
    /\ store = worker[w].tick.before

\* a tick on a composite that lists index 3 has failed in the retrieval, the
\* memory backend holding shares 1 and 2 as before
C13_Witness ==
  /\ failedAt("retrieve shares")
  /\ cfg.Storage = "multi"
  /\ DOMAIN store.data = {1, 2}

\* ------------------------------------------------------------------------
\* Properties of MultiPartyAuthorize and BreakGlassRecovery
\* ------------------------------------------------------------------------

\* what GetShare returns for each of the indices of a call
fetched(c) == [k \in DOMAIN c.arg.indices |-> GetShare(store, c.arg.h, c.arg.indices[k])]

inRanges(c) ==
  /\ c.Storage # "nil"
  /\ c.RotationInterval > 0
  /\ c.Threshold \in 2..255
  /\ c.TotalShares \in c.Threshold..255

\* C15: NewRotator returns an error and no rotator for every configuration
\* outside the ranges, and a rotator for every configuration inside them.
C15_NewRotatorChecksRanges ==
  call.op = "newrotator" =>
    /\ inRanges(call.arg) => call.res = Ok(call.arg)
    /\ ~inRanges(call.arg) => (~call.res.ok /\ call.res.val = <<>>)

\* ------------------------------------------------------------------------
\* Properties of the text decoders
\* ------------------------------------------------------------------------

\* the length of a frame is 10 + L + 4 for the L in its header
frameLength(b) == Len(b) >= headLen /\ Len(b) = headLen + Uint16(b) + 4

\* C16: DecodeHex and DecodeBase64 return bytes without an error only when
\* the string decodes and the bytes are as long as the header in them says,
\* and return the frame for the encoding of a frame.
C16_DecodersCheckLength ==
  call.op \in {"hex", "base64"} =>
    /\ call.res.ok => frameLength(call.res.val)
    /\ (\E k \in DOMAIN shares :
          call.arg = IF call.op = "hex" THEN EncodeHex(shares[k])
                     ELSE EncodeBase64(shares[k]))
         => (call.res.ok /\ call.res.val \in Range(shares))

\* ------------------------------------------------------------------------
\* Properties of a reader beside the rotator
\* ------------------------------------------------------------------------

\* a frame complete in itself: magic, version, header fields in range, the
\* length the header says, and the CRC of the bytes before it
wellFormed(f) ==
  /\ Len(f) >= headLen + 4
  /\ SubSeq(f, 1, 4) = magicHeader
  /\ f[5] = version
  /\ f[6] >= 2 /\ f[7] >= f[6] /\ f[10] \in 1..f[7]
  /\ Len(f) = headLen + Uint16(f) + 4
  /\ SubSeq(f, Len(f) - 3, Len(f)) = ChecksumIEEE(SubSeq(f, 1, Len(f) - 4))

writing == {w \in Workers : worker[w].pc = "write"}

\* w is the only worker that was started
alone(w) == \A v \in Workers \ {w} : worker[v].pc = "none"

\* what a GetShare(i) beside the tick of w may return: what the storage held
\* at i when the tick read it, or the frame the tick made for i
oldOrNew(w, h, i) ==
  {GetShare(worker[w].tick.before, h, i)}
    \cup (IF i \in DOMAIN worker[w].tick.made THEN {Ok(worker[w].tick.made[i])} ELSE {})

\* C17: on a storage whose frames are well formed, every frame a GetShare
\* returns beside the rotator is well formed, and a GetShare during a tick
\* of the worker of the rotator returns for its index the whole frame of
\* before the tick or the whole frame the tick made.
C17_ReaderSeesWholeFrames ==
  /\ [](call.op = "read" /\ call.res.ok => wellFormed(call.res.val))
  /\ [][\A w \in writing :
          (call'.op = "read" /\ call' # call /\ alone(w)) =>
            call'.res \in oldOrNew(w, call'.arg.h, call'.arg.i)]_vars

\* during a tick that has written some of its frames and not the others, a
\* GetShare returned a new frame while an index not yet written holds the old
C17_Witness ==
  /\ call.op = "read" /\ call.res.ok
  /\ \E w \in writing :
       /\ call.arg.i \in DOMAIN worker[w].tick.made
       /\ call.res.val = worker[w].tick.made[call.arg.i]
       /\ call.res # GetShare(worker[w].tick.before, call.arg.h, call.arg.i)
       /\ \E j \in DOMAIN worker[w].pending :
            /\ GetShare(store, call.arg.h, j) = GetShare(worker[w].tick.before, call.arg.h, j)
            /\ GetShare(store, call.arg.h, j) # Ok(worker[w].tick.made[j])

\* ------------------------------------------------------------------------
\* Properties of a backend under concurrent calls
\* ------------------------------------------------------------------------

\* the indices the backend h lists in the state st
listedIn(st, h) == Range(CHOOSE l \in ListShares(st, h) : TRUE)

\* C18: BatchSet takes effect at one instant: a ListShares of the same
\* backend that returns while a BatchSet is in flight lists the indices of
\* before the BatchSet or those of after it, with all of its entries.
C18_BatchSetTakesEffectAtOnce ==
  (inflight.active /\ call.op = "list" /\ call.arg.h = inflight.h) =>
    Range(call.res.val) \in {listedIn(inflight.before, inflight.h),
                             listedIn(inflight.before, inflight.h) \cup DOMAIN inflight.shares}

\* ------------------------------------------------------------------------
\* Liveness of the rotator
\* ------------------------------------------------------------------------

running == \E w \in Workers : worker[w].pc \in {"select", "write"}

\* C19: when Stop has been called while a worker runs, the worker exits and
\* Stop returns, however often the timer fires.
C19_StopEventuallyReturns ==
  (client = "waiting" /\ running) ~> (client = "returned" /\ ~running)

\* ------------------------------------------------------------------------
\* Properties of a tick that succeeded
\* ------------------------------------------------------------------------

\* the indices the storage holds a frame at
held(st, h) == {i \in 1..4 : GetShare(st, h, i).ok}

\* bytes 5..9 of a frame: threshold, total, secret length and index
headerFields(f) == SubSeq(f, 6, headLen)

\* C20: when a tick ends with success the storage holds frames at the
\* indices it held them at before the tick, and each frame has the
\* threshold, total, secret length, index byte and length it had before.
C20_TickMutatesInPlace ==
  [][\A w \in Workers :
       (worker[w].tick.status = "writing" /\ worker'[w].tick.status = "ok") =>
         /\ held(store', cfg.Storage) = held(worker[w].tick.before, cfg.Storage)
         /\ \A i \in held(worker[w].tick.before, cfg.Storage) :
              /\ GetShare(store', cfg.Storage, i).ok
              /\ headerFields(GetShare(store', cfg.Storage, i).val)
                   = headerFields(GetShare(worker[w].tick.before, cfg.Storage, i).val)
              /\ Len(GetShare(store', cfg.Storage, i).val)
                   = Len(GetShare(worker[w].tick.before, cfg.Storage, i).val)]_vars

\* ------------------------------------------------------------------------
\* Properties of the field kernel
\* ------------------------------------------------------------------------

\* the product of the polynomials a and b over GF(2), from bit i of b on
RECURSIVE carryless(_, _, _)
carryless(a, b, i) ==
  IF i = 8 THEN 0
  ELSE Xor16(IF (b \div (2 ^ i)) % 2 = 1 THEN a * (2 ^ i) ELSE 0, carryless(a, b, i + 1))

\* p modulo the polynomial 0x11B: the bits k down to 8 of p are cleared
RECURSIVE modulo11B(_, _)
modulo11B(p, k) ==
  IF k < 8 THEN p
  ELSE modulo11B(IF (p \div (2 ^ k)) % 2 = 1 THEN Xor16(p, 283 * (2 ^ (k - 8))) ELSE p, k - 1)

fieldProduct(a, b) == modulo11B(carryless(a, b, 0), 14)

\* C24: mul(a, b) is the carry-less product of a and b reduced modulo 0x11B,
\* which is 0 when an operand is 0; inv(a) of a non-zero a succeeds with
\* mul(a, inv(a)) = 1, and inv(0) fails with the error of the inverse of zero.
C24_FieldKernel ==
  /\ call.op = "mul" =>
       /\ call.res = fieldProduct(call.arg[1], call.arg[2])
       /\ (call.arg[1] = 0 \/ call.arg[2] = 0) => call.res = 0
  /\ call.op = "inv" =>
       IF call.arg = 0
       THEN ~call.res.ok /\ call.res.err = "shamir: inverse of zero"
       ELSE call.res.ok /\ mul(call.arg, call.res.val) = 1

\* a product whose logarithms add up to 255 or more, so that mul wraps the
\* sum, and which the reduction modulo 0x11B changes
C24_Witness ==
  /\ call.op = "mul"
  /\ call.arg[1] # 0 /\ call.arg[2] # 0
  /\ logTable[call.arg[1]] + logTable[call.arg[2]] >= 255
  /\ carryless(call.arg[1], call.arg[2], 0) > 255
  /\ call.res = fieldProduct(call.arg[1], call.arg[2])

\* ------------------------------------------------------------------------
\* Properties of the slices of the MemoryStorage
\* ------------------------------------------------------------------------

\* C23: the in-memory backend stores and returns copies: when the caller
\* writes into a slice it holds (one it gave to SetShare or one GetShare
\* returned), what GetShare(i) returns is the same after as before, for every
\* index i stored.
C23_MemoryStoresCopies ==
  [][call'.op = "mutate" =>
       \A i \in DOMAIN heap.data : stored(heap', i) = stored(heap, i)]_vars

\* ------------------------------------------------------------------------
\* Properties of Start called more than once
\* ------------------------------------------------------------------------

\* the goroutines of Start that have not returned, and those inside a tick
\* (past its reads, before the return of StoreShares)
unreturned == {w \in DOMAIN worker : worker[w].pc \in {"select", "write"}}
ticking == {w \in DOMAIN worker : worker[w].pc = "write"}

\* C21: whatever the calls of Start and Stop, the rotator has at most one
\* worker that has not returned, and at most one tick is in flight against
\* the storage.
C21_AtMostOneWorker ==
  /\ Cardinality(unreturned) <= 1
  /\ Cardinality(ticking) <= 1

\* ------------------------------------------------------------------------
\* Properties of the frames of a proactive refresh
\* ------------------------------------------------------------------------

\* the payload of a frame: the bytes between the header and the CRC
payload(f) == SubSeq(f, headLen + 1, Len(f) - 4)

\* the share at x of the secret of L zero bytes, of threshold t, when every
\* byte of the random source is rng: byte j is the polynomial of column j at x
zeroShareAt(rng, L, t, x) ==
  [j \in 1..L |->
     evalAt(columnCoeffs([k \in 1..(L * (t - 1)) |-> rng], [i \in 1..L |-> 0], t, j), x, t)]

\* the frame made for x is the frame the tick read at x with the zero share
\* at x added to its payload
pairedAt(tk, h, t, rng, x) ==
  /\ tk.made[x][10] = x
  /\ GetShare(tk.before, h, x).ok
  /\ LET old == payload(GetShare(tk.before, h, x).val)
     IN payload(tk.made[x]) =
          [j \in 1..Len(old) |-> Xor(old[j], zeroShareAt(rng, Len(old), t, x)[j])]

\* C22: every frame a proactive refresh makes carries in its header the index
\* x of an old frame, and its payload is the payload of the old frame of
\* index x XOR the zero polynomial at x, whatever set of at least t frames
\* the tick read.
C22_RefreshPairsSameX ==
  \A w \in Workers :
    (cfg.ProactiveOnly /\ worker[w].tick.made # <<>>) =>
      \E rng \in rand :
        \A x \in DOMAIN worker[w].tick.made :
          pairedAt(worker[w].tick, cfg.Storage, cfg.Threshold, rng, x)

====
